---- MODULE Spec2Model ----
(***************************************************************************)
(* A model of thmap.c, the concurrent trie-hash map.                       *)
(*                                                                         *)
(* Memory is an array of cells addressed by 4-byte aligned offsets from    *)
(* baseptr.  Every load or store of a shared word (a slot, a node's state) *)
(* by thmap_get, thmap_put, thmap_del and thmap_gc is one step of the      *)
(* calling thread; stores made to memory that only the storing thread can  *)
(* reach (a node it has just created) are folded into the step that        *)
(* allocates it.  The fences of the source make every store visible in     *)
(* program order, so memory is sequentially consistent here.               *)
(***************************************************************************)
EXTENDS Integers, Sequences, FiniteSets, TLC

(***************************************************************************)
(* Bounds of the model.                                                    *)
(***************************************************************************)
\* Calls of thmap_get/thmap_put/thmap_del/thmap_gc made in one behaviour.
MaxOps == 4
\* The deepest level hashval_getslot is applied at in a hashing run.
MaxLevel == 15
\* Allocations handed to stage_mem_gc in a retirement run.
GcBlocks == 3
\* Calls that begin while another call is in progress, in one behaviour.
MaxOverlap == 1
\* Allocator calls that the environment lets fail (return 0) in one behaviour.
MaxFail == 1
\* Cells of the heap handed out by the allocator; alloc fails when none is left.
HeapCells == 16

\* The calling threads.
Threads == {1, 2}
\* The keys the callers use; murmurhash3 below gives their hash words.
Keys == {1, 2, 3}

NULL == 0

(***************************************************************************)
(* Constants of thmap.c.                                                   *)
(***************************************************************************)
ROOT_BITS == 6
ROOT_SIZE == 64
ROOT_MASK == 63
LEVEL_BITS == 4
LEVEL_SIZE == 16
LEVEL_MASK == 15
HASHVAL_BITS == 32
HASHVAL_SHIFT == 5
HASHVAL_MASK == 31
THMAP_LEAF_BIT == 1
\* sizeof and offsetof on an LP64 build: uint32_t + padding + 8-byte words.
THMAP_ROOT_LEN == 528
THMAP_INODE_LEN == 144
THMAP_LEAF_LEN == 24

\* thmap_create(0, ops, flags): the base address of all offsets.
baseptr == 0
\* The offset of the root node: the first allocation, made by thmap_create.
root == 4

(***************************************************************************)
(* 32-bit unsigned words (uint32_t), kept as two 16-bit halves.            *)
(***************************************************************************)
Word(hi, lo) == [hi |-> hi, lo |-> lo]
WordZero == Word(0, 0)
\* w + 1 and w - 1, modulo 2^32.
WordInc(w) ==
    IF w.lo = 65535 THEN Word((w.hi + 1) % 65536, 0) ELSE Word(w.hi, w.lo + 1)
WordDec(w) ==
    IF w.lo = 0 THEN Word((w.hi + 65535) % 65536, 65535) ELSE Word(w.hi, w.lo - 1)
\* (w >> n) & (2^k - 1), for k <= 16.
WordBits(w, n, k) ==
    LET v == IF n >= 16
             THEN w.hi \div (2 ^ (n - 16))
             ELSE (w.lo \div (2 ^ n)) + (w.hi % (2 ^ n)) * (2 ^ (16 - n))
    IN  v % (2 ^ k)
\* w | f and w & ~f, for a flag f of one bit in the upper half.
WordHasFlag(w, f) == (w.hi \div f.hi) % 2 = 1
WordOr(w, f) == IF WordHasFlag(w, f) THEN w ELSE Word(w.hi + f.hi, w.lo)
WordAndNot(w, f) == IF WordHasFlag(w, f) THEN Word(w.hi - f.hi, w.lo) ELSE w

\* State field: 1U << 31, 1U << 30, and (s) & 0x3fffffff.
NODE_LOCKED == Word(32768, 0)
NODE_DELETED == Word(16384, 0)
NODE_COUNT(s) == (s.hi % 16384) * 65536 + s.lo
node_locked_p(s) == WordHasFlag(s, NODE_LOCKED)
node_deleted_p(s) == WordHasFlag(s, NODE_DELETED)

THMAP_INODE_P(p) == p % 2 = 0
THMAP_ALIGN(p) == p - (p % 4)
THMAP_GETPTR(p) == baseptr + p
THMAP_GETOFF(p) == p - baseptr
THMAP_NODE(p) == THMAP_GETPTR(THMAP_ALIGN(p))

(***************************************************************************)
(* HASH VALUE AND KEY OPERATIONS.                                          *)
(***************************************************************************)
\* The length in bytes of the callers' keys.
KeyLen(key) == 8

\* The 32-bit hash word of a key for seed i.  Keys 1 and 2 agree on the
\* root's 6 bits and on the 4 bits of level 1 and differ at level 2; key 3
\* agrees with them on the root's 6 bits only.
murmurhash3(key, i) ==
    IF i = 0
    THEN CASE key = 1 -> Word(0, 5)
           [] key = 2 -> Word(1, 5)
           [] key = 3 -> Word(0, 4101)
           [] OTHER -> Word(key % 65536, (key * 40503) % 65536)
    ELSE Word((key * 40503 + i) % 65536, (key * 25173 + i * 13849) % 65536)

roundup2(x, m) == ((x + m - 1) \div m) * m

THMAP_QUERY_INIT(l) == [level |-> l, hashidx |-> -1, hashval |-> WordZero]

\* The query after hashval_getslot has refreshed its cached hash word.
hashval_query(query, key) ==
    LET nbits == ROOT_BITS + (query.level * LEVEL_BITS)
        i == nbits \div (2 ^ HASHVAL_SHIFT)
    IN  IF query.hashidx # i
        THEN [query EXCEPT !.hashval = murmurhash3(key, i), !.hashidx = i]
        ELSE query

hashval_getslot(query, key) ==
    LET q == hashval_query(query, key)
        nbits == ROOT_BITS + (q.level * LEVEL_BITS)
        shift == roundup2(nbits, LEVEL_BITS) % HASHVAL_BITS
    IN  IF q.level = 0
        THEN WordBits(q.hashval, 0, ROOT_BITS)
        ELSE WordBits(q.hashval, shift, LEVEL_BITS)

(***************************************************************************)
(* STATE.                                                                  *)
(***************************************************************************)
VARIABLES
    mem,        \* the heap: offset -> cell (an inode, a leaf, a key buffer or free)
    gc_list,    \* thmap->gc_list, the staged {addr, len} records, head first
    nocopy,     \* (thmap->flags & THMAP_NOCOPY) != 0
    th,         \* each thread's call in progress and its local variables
    nops,       \* calls made so far
    nover,      \* calls begun so far while another call was in progress
    nfail,      \* allocator failures so far
    badfree,    \* some free(addr, len) did not match a live allocation
    opfreed,    \* get/put/del freed an allocation that had been linked
    mode,       \* which bookkeeping the run keeps: "plain", "seq" or "lin"
    amap,       \* sequential runs: the key -> value map the calls describe
    life,       \* sequential runs, per key: 0, 1 once removed, 2 once inserted again
    snap,       \* sequential runs: mem when the call in progress began
    stable,     \* per thread: its lookup's key has been in the tree throughout
    lin,        \* linearizability monitor: the possible abstract configurations
    pushed      \* retirement runs: the addresses stage_mem_gc has pushed

vars == <<mem, gc_list, nocopy, th, nops, nover, nfail, badfree, opfreed,
          mode, amap, life, snap, stable, lin, pushed>>

Addr == {4 * i : i \in 1..HeapCells}

FreeCell ==
    [kind |-> "free", size |-> 0, state |-> WordZero, parent |-> 0, slots |-> <<>>,
     key |-> 0, len |-> 0, val |-> 0, bytes |-> 0, linked |-> FALSE]

\* A zeroed thmap_inode_t with the given fanout (memset in node_create and
\* thmap_create).
ZeroNode(size, fanout) ==
    [FreeCell EXCEPT !.kind = "inode", !.size = size,
                     !.slots = [i \in 0..(fanout - 1) |-> 0]]

\* The caller's own buffer holding a key (THMAP_NOCOPY stores its address).
CallerKey(key) == 4 * (HeapCells + key)
IsHeap(p) == p \in Addr

\* ops->alloc: the lowest free cell, or 0 when the heap is exhausted.
alloc_wrapper(m) ==
    LET free == {a \in Addr : m[a].kind = "free"}
    IN  IF free = {} THEN 0 ELSE CHOOSE a \in free : \A b \in free : a <= b

\* What one ops->alloc call may return: the cell, or 0 for a failure.
AllocResults(m) ==
    {alloc_wrapper(m)} \cup (IF nfail < MaxFail THEN {0} ELSE {})

\* ops->free(addr, len) matches a live allocation of that length.
FreeMatches(m, addr, len) ==
    IsHeap(addr) /\ m[addr].kind # "free" /\ m[addr].size = len

free_wrapper(m, addr, len) ==
    IF FreeMatches(m, addr, len) THEN [m EXCEPT ![addr] = FreeCell] ELSE m

\* parent->slots[slot], for a parent that is a live inode.
Slot(m, parent, slot) ==
    IF IsHeap(parent) /\ m[parent].kind = "inode" /\ slot \in DOMAIN m[parent].slots
    THEN m[parent].slots[slot]
    ELSE 0

\* The bytes of a leaf's key: THMAP_GETPTR(thmap, leaf->key) dereferenced.
LeafKey(m, leaf) ==
    LET p == THMAP_GETPTR(m[leaf].key)
    IN  IF IsHeap(p) THEN m[p].bytes ELSE (p \div 4) - HeapCells

\* key_cmp_p without the memcmp: keys of equal length compare equal.
key_cmp_p_len_only(m, leaf, key) ==
    KeyLen(key) = m[leaf].len

key_cmp_p(m, leaf, key) ==
    KeyLen(key) = m[leaf].len /\ LeafKey(m, leaf) = key

hashval_getleafslot(m, leaf, level) ==
    hashval_getslot(THMAP_QUERY_INIT(level), LeafKey(m, leaf))

(***************************************************************************)
(* NODE LOCKING and INTER-NODE OPERATIONS, as functions of the heap.       *)
(***************************************************************************)
lock_node(m, node) == [m EXCEPT ![node].state = WordOr(@, NODE_LOCKED)]

unlock_node(m, node) ==
    [m EXCEPT ![node].state = WordAndNot(@, NODE_LOCKED)]

\* node_insert without node->state++.
node_insert_no_count(m, node, slot, child) ==
    [m EXCEPT ![node].slots[slot] = child]

node_insert(m, node, slot, child) ==
    [m EXCEPT ![node].slots[slot] = child, ![node].state = WordInc(@)]

\* node_remove that decrements the count and leaves the slot as it was.
node_remove_count_only(m, node, slot) ==
    [m EXCEPT ![node].state = WordDec(@)]

node_remove(m, node, slot) ==
    [m EXCEPT ![node].slots[slot] = 0, ![node].state = WordDec(@)]

\* node_create without node->state = NODE_LOCKED.
node_create_unlocked(m, p, parent) ==
    [m EXCEPT ![p] = [ZeroNode(THMAP_INODE_LEN, LEVEL_SIZE) EXCEPT
                         !.parent = THMAP_GETOFF(parent)]]

\* The heap after node_create(thmap, parent) got offset p from the allocator.
node_create(m, p, parent) ==
    [m EXCEPT ![p] = [ZeroNode(THMAP_INODE_LEN, LEVEL_SIZE) EXCEPT
                         !.state = NODE_LOCKED,
                         !.parent = THMAP_GETOFF(parent)]]

\* stage_mem_gc: push {addr, len} on the head of the retirement list.
stage_mem_gc(list, addr, len) == <<[addr |-> addr, len |-> len]>> \o list

(***************************************************************************)
(* THREADS.  th[t].pc names the statement thread t executes next.          *)
(***************************************************************************)
Idle ==
    [pc |-> "idle", op |-> "none", key |-> 0, val |-> 0,
     query |-> THMAP_QUERY_INIT(0), parent |-> 0, slot |-> 0, leaf |-> 0,
     other |-> 0, other_slot |-> 0, child |-> 0, node |-> 0, gc |-> <<>>,
     ret |-> 0, saw |-> "none", loads |-> 0, held |-> {}]

\* The locals of find_edge_node on entry, at level 0: parent = thmap->root
\* and off = hashval_getslot(query, key, len).
EnterFind(r) ==
    LET q0 == [r.query EXCEPT !.level = 0]
    IN  [r EXCEPT !.query = hashval_query(q0, r.key),
                  !.parent = THMAP_GETPTR(root),
                  !.slot = hashval_getslot(q0, r.key)]

Quiescent == \A t \in Threads : th[t].pc = "idle"

\* Thread t may begin a call of get, put or del: within the bounds, and, the
\* threads being interchangeable, only the lowest idle thread does.  In a
\* sequential run the callers make one call at a time.
MayCall(t) ==
    /\ th[t].pc = "idle"
    /\ \A u \in Threads : u < t => th[u].pc # "idle"
    /\ nops < MaxOps
    /\ Quiescent \/ (mode # "seq" /\ nover < MaxOverlap)

\* The value a call of put number n passes: every call has its own handle.
ValueOf(n) == n + 1

(***************************************************************************)
(* thmap_get run to completion on heap m with no other thread running.     *)
(***************************************************************************)
RECURSIVE LookupFrom(_, _, _, _)
LookupFrom(m, key, parent, query) ==
    LET slot == hashval_getslot(query, key)
        node == Slot(m, parent, slot)
        leaf == THMAP_NODE(node)
    IN  IF node # 0 /\ THMAP_INODE_P(node)
        THEN LookupFrom(m, key, leaf,
                        [hashval_query(query, key) EXCEPT !.level = @ + 1])
        ELSE IF THMAP_INODE_P(node) THEN NULL
        ELSE IF ~key_cmp_p(m, leaf, key) THEN NULL
        ELSE m[leaf].val

Lookup(m, key) == LookupFrom(m, key, THMAP_GETPTR(root), THMAP_QUERY_INIT(0))

(***************************************************************************)
(* BOOKKEEPING kept beside the program's state; the program never reads    *)
(* it.  What is kept depends on mode, which a behaviour never changes and  *)
(* which only the callers' schedule (MayCall) looks at.                    *)
(***************************************************************************)
IsCall(r) == r.op \in {"get", "put", "del"}

\* The map after a call that returned ret, by the interface's semantics:
\* insert of an absent key stores it unless the call failed (null), insert
\* of a present key changes nothing, remove deletes.
AbstractNext(a, r) ==
    CASE r.op = "put" /\ a[r.key] = NULL /\ r.ret # NULL -> [a EXCEPT ![r.key] = r.val]
      [] r.op = "del" -> [a EXCEPT ![r.key] = NULL]
      [] OTHER -> a

\* Sequential runs: the abstract map, the keys removed (and inserted again)
\* and the heap at the start of the call in progress.
SeqGhost(t) ==
    LET r == th[t]
    IN  IF r.pc = "idle" /\ th'[t].pc # "idle"
        THEN /\ snap' = mem
             /\ UNCHANGED <<amap, life>>
        ELSE IF r.pc = "done" /\ th'[t].pc = "idle"
        THEN /\ snap' = <<>>
             /\ amap' = AbstractNext(amap, r)
             /\ life' = CASE r.op = "del" /\ amap[r.key] # NULL ->
                               [life EXCEPT ![r.key] = 1]
                          [] r.op = "put" /\ r.ret # NULL /\ life[r.key] = 1 ->
                               [life EXCEPT ![r.key] = 2]
                          [] OTHER -> life
        ELSE UNCHANGED <<amap, life, snap>>

\* Per lookup: its key has been found by Lookup in every state since the call.
StableGhost ==
    stable' = [u \in Threads |->
                 /\ th'[u].op = "get"
                 /\ th'[u].pc # "idle"
                 /\ (th[u].pc = "idle" \/ stable[u])
                 /\ Lookup(mem, th'[u].key) # NULL
                 /\ Lookup(mem', th'[u].key) # NULL]

\* The linearizability monitor.  A configuration is a key -> value map and,
\* per thread, its call: not begun ("idle"), begun and not yet taken effect
\* ("pend"), or taken effect with result res ("lin").  lin holds every
\* configuration that some order of the calls so far, consistent with their
\* results and their real-time order, leads to.
NoCall == [st |-> "idle", op |-> "none", key |-> 0, val |-> 0, res |-> 0]

\* The outcomes <<map, result>> of one call on an atomic map.  An insert may
\* fail (null) and change nothing.
AbstractCall(a, c) ==
    CASE c.op = "get" -> {<<a, a[c.key]>>}
      [] c.op = "del" -> {<<[a EXCEPT ![c.key] = NULL], a[c.key]>>}
      [] c.op = "put" ->
           {<<a, NULL>>} \cup
           (IF a[c.key] = NULL
            THEN {<<[a EXCEPT ![c.key] = c.val], c.val>>}
            ELSE {<<a, a[c.key]>>})
      [] OTHER -> {<<a, NULL>>}

LinOne(S) ==
    UNION {UNION {{[m |-> o[1],
                    p |-> [c.p EXCEPT ![u] = [NoCall EXCEPT !.st = "lin",
                                                            !.res = o[2]]]]
                   : o \in AbstractCall(c.m, c.p[u])}
                  : u \in {v \in Threads : c.p[v].st = "pend"}}
           : c \in S}

RECURSIVE LinClosure(_, _)
LinClosure(S, n) == IF n = 0 THEN S ELSE LinClosure(S \cup LinOne(S), n - 1)

LinGhost(t) ==
    LET r == th[t]
        r1 == th'[t]
    IN  IF r.pc = "idle" /\ r1.pc # "idle" /\ IsCall(r1)
        THEN lin' = LinClosure(
                      {[c EXCEPT !.p[t] = [NoCall EXCEPT !.st = "pend", !.op = r1.op,
                                              !.key = r1.key, !.val = r1.val]]
                       : c \in lin},
                      Cardinality(Threads))
        ELSE IF r.pc = "done" /\ r1.pc = "idle" /\ IsCall(r)
        THEN lin' = {[c EXCEPT !.p[t] = NoCall]
                     : c \in {d \in lin : d.p[t].st = "lin" /\ d.p[t].res = r.ret}}
        ELSE lin' = lin

Ghost(t) ==
    /\ mode' = mode
    /\ IF mode = "seq" THEN SeqGhost(t) ELSE UNCHANGED <<amap, life, snap>>
    /\ IF mode = "plain" THEN StableGhost ELSE UNCHANGED stable
    /\ IF mode = "lin" THEN LinGhost(t) ELSE UNCHANGED lin
    /\ UNCHANGED pushed

\* A caller makes a call.  thmap_gc is called only while no other call is in
\* progress: the caller's quiescence contract (thmap_gc frees what get, put
\* and del may still hold pointers to).
Call_get(t) ==
    /\ MayCall(t)
    /\ \E key \in Keys :
         th' = [th EXCEPT ![t] =
                  EnterFind([Idle EXCEPT !.pc = "find_edge_node", !.op = "get",
                                         !.key = key])]
    /\ nops' = nops + 1
    /\ nover' = IF Quiescent THEN nover ELSE nover + 1
    /\ UNCHANGED <<mem, gc_list, nocopy, nfail, badfree, opfreed>>
    /\ Ghost(t)

Call_put(t) ==
    /\ MayCall(t)
    /\ \E key \in Keys :
         th' = [th EXCEPT ![t] =
                  [Idle EXCEPT !.pc = "leaf_create", !.op = "put",
                               !.key = key, !.val = ValueOf(nops)]]
    /\ nops' = nops + 1
    /\ nover' = IF Quiescent THEN nover ELSE nover + 1
    /\ UNCHANGED <<mem, gc_list, nocopy, nfail, badfree, opfreed>>
    /\ Ghost(t)

Call_del(t) ==
    /\ MayCall(t)
    /\ \E key \in Keys :
         th' = [th EXCEPT ![t] =
                  EnterFind([Idle EXCEPT !.pc = "find_edge_node", !.op = "del",
                                         !.key = key])]
    /\ nops' = nops + 1
    /\ nover' = IF Quiescent THEN nover ELSE nover + 1
    /\ UNCHANGED <<mem, gc_list, nocopy, nfail, badfree, opfreed>>
    /\ Ghost(t)

Call_gc(t) ==
    /\ Quiescent
    /\ \A u \in Threads : t <= u
    /\ th' = [th EXCEPT ![t] = [Idle EXCEPT !.pc = "gc_exchange", !.op = "gc"]]
    /\ UNCHANGED <<mem, gc_list, nocopy, nops, nover, nfail, badfree, opfreed>>
    /\ Ghost(t)

\* The call returns to its caller.
Return(t) ==
    /\ th[t].pc = "done"
    /\ th' = [th EXCEPT ![t] = Idle]
    /\ UNCHANGED <<mem, gc_list, nocopy, nops, nover, nfail, badfree, opfreed>>
    /\ Ghost(t)

(***************************************************************************)
(* find_edge_node: one slot load per step.                                 *)
(***************************************************************************)
\* Bookkeeping (th[t].held): the nodes thread t has locked, by lock_node or by
\* node_create, and has not yet passed to unlock_node.
\* Bookkeeping (th[t].loads): the slot loads a lookup has made.
Loaded(r) == IF r.op = "get" THEN r.loads + 1 ELSE r.loads

\* find_edge_node that reads a node only while no writer has it locked.
find_edge_node_waits(t) ==
    LET r == th[t]
        node == Slot(mem, r.parent, r.slot)
    IN  /\ r.pc = "find_edge_node"
        /\ ~node_locked_p(mem[r.parent].state)
        /\ IF node # 0 /\ THMAP_INODE_P(node)
           THEN LET q1 == [r.query EXCEPT !.level = @ + 1]
                IN  th' = [th EXCEPT ![t] =
                             [r EXCEPT !.query = hashval_query(q1, r.key),
                                       !.slot = hashval_getslot(q1, r.key),
                                       !.parent = THMAP_NODE(node),
                                       !.loads = Loaded(r)]]
           ELSE th' = [th EXCEPT ![t].pc =
                         IF r.op = "get" THEN "get_leaf" ELSE "lock_node",
                                 ![t].loads = Loaded(r)]
        /\ UNCHANGED <<mem, gc_list, nocopy, nops, nover, nfail, badfree, opfreed>>
        /\ Ghost(t)

find_edge_node(t) ==
    LET r == th[t]
        node == Slot(mem, r.parent, r.slot)
    IN  /\ r.pc = "find_edge_node"
        /\ IF node # 0 /\ THMAP_INODE_P(node)
           THEN LET q1 == [r.query EXCEPT !.level = @ + 1]
                IN  th' = [th EXCEPT ![t] =
                             [r EXCEPT !.query = hashval_query(q1, r.key),
                                       !.slot = hashval_getslot(q1, r.key),
                                       !.parent = THMAP_NODE(node),
                                       !.loads = Loaded(r)]]
           ELSE th' = [th EXCEPT ![t].pc =
                         IF r.op = "get" THEN "get_leaf" ELSE "lock_node",
                                 ![t].loads = Loaded(r)]
        /\ UNCHANGED <<mem, gc_list, nocopy, nops, nover, nfail, badfree, opfreed>>
        /\ Ghost(t)

(***************************************************************************)
(* find_edge_node_locked: lock the edge node, re-check it, retry.          *)
(***************************************************************************)
\* lock_node that sets NODE_LOCKED without testing it first.
fenl_lock_blind(t) ==
    LET r == th[t]
    IN  /\ r.pc = "lock_node"
        /\ mem' = lock_node(mem, r.parent)
        /\ th' = [th EXCEPT ![t].pc = "recheck", ![t].held = @ \cup {r.parent}]
        /\ UNCHANGED <<gc_list, nocopy, nops, nover, nfail, badfree, opfreed>>
        /\ Ghost(t)

\* lock_node(node): the compare-and-swap that sets NODE_LOCKED succeeds only
\* on a state without it; a thread that finds it set spins, i.e. waits.
fenl_lock(t) ==
    LET r == th[t]
    IN  /\ r.pc = "lock_node"
        /\ ~node_locked_p(mem[r.parent].state)
        /\ mem' = lock_node(mem, r.parent)
        /\ th' = [th EXCEPT ![t].pc = "recheck", ![t].held = @ \cup {r.parent}]
        /\ UNCHANGED <<gc_list, nocopy, nops, nover, nfail, badfree, opfreed>>
        /\ Ghost(t)

\* The re-check without the NODE_DELETED test.
fenl_recheck_no_deleted(t) ==
    LET r == th[t]
        target == Slot(mem, r.parent, r.slot)
    IN  /\ r.pc = "recheck"
        /\ IF target # 0 /\ THMAP_INODE_P(target)
           THEN /\ mem' = unlock_node(mem, r.parent)
                /\ th' = [th EXCEPT ![t] =
                            EnterFind([r EXCEPT !.pc = "find_edge_node",
                                                !.held = @ \ {r.parent}])]
           ELSE /\ mem' = mem
                /\ th' = [th EXCEPT ![t].pc =
                            IF r.op = "put" THEN "put_target" ELSE "del_leaf"]
        /\ UNCHANGED <<gc_list, nocopy, nops, nover, nfail, badfree, opfreed>>
        /\ Ghost(t)

fenl_recheck(t) ==
    LET r == th[t]
        target == Slot(mem, r.parent, r.slot)
    IN  /\ r.pc = "recheck"
        /\ IF \/ node_deleted_p(mem[r.parent].state)
              \/ (target # 0 /\ THMAP_INODE_P(target))
           THEN /\ mem' = unlock_node(mem, r.parent)
                /\ th' = [th EXCEPT ![t] =
                            EnterFind([r EXCEPT !.pc = "find_edge_node",
                                                !.held = @ \ {r.parent}])]
           ELSE /\ mem' = mem
                /\ th' = [th EXCEPT ![t].pc =
                            IF r.op = "put" THEN "put_target" ELSE "del_leaf"]
        /\ UNCHANGED <<gc_list, nocopy, nops, nover, nfail, badfree, opfreed>>
        /\ Ghost(t)

(***************************************************************************)
(* thmap_get.                                                              *)
(***************************************************************************)
\* Bookkeeping (th[t].saw): what the slot value that get_leaf loaded was.
SlotKind(node) ==
    IF node = 0 THEN "empty" ELSE IF THMAP_INODE_P(node) THEN "inode" ELSE "leaf"

\* get_leaf loads parent->slots[slot] again; then key_cmp_p and leaf->val.
thmap_get(t) ==
    LET r == th[t]
        node == Slot(mem, r.parent, r.slot)
        leaf == THMAP_NODE(node)
    IN  /\ r.pc = "get_leaf"
        /\ th' = [th EXCEPT ![t].pc = "done",
                            ![t].ret =
                               IF THMAP_INODE_P(node) THEN NULL
                               ELSE IF ~key_cmp_p(mem, leaf, r.key) THEN NULL
                               ELSE mem[leaf].val,
                            ![t].saw = SlotKind(node),
                            ![t].loads = Loaded(r)]
        /\ UNCHANGED <<mem, gc_list, nocopy, nops, nover, nfail, badfree, opfreed>>
        /\ Ghost(t)

(***************************************************************************)
(* LEAF OPERATIONS.                                                        *)
(***************************************************************************)
\* 1 when the allocator returned 0 although a cell was left.
Failed(m, p) == IF p = 0 /\ alloc_wrapper(m) # 0 THEN 1 ELSE 0

\* The heap after leaf_create got leaf_off (and key_off, unless NOCOPY).
leaf_create(m, leaf_off, key_off, key, val) ==
    LET m1 == [m EXCEPT ![leaf_off] =
                  [FreeCell EXCEPT !.kind = "leaf", !.size = THMAP_LEAF_LEN,
                                   !.key = IF nocopy THEN CallerKey(key) ELSE key_off,
                                   !.len = KeyLen(key), !.val = val]]
    IN  IF nocopy THEN m1
        ELSE [m1 EXCEPT ![key_off] =
                 [FreeCell EXCEPT !.kind = "key", !.size = KeyLen(key),
                                  !.bytes = key]]

\* leaf_free that frees the leaf and forgets its key buffer.
leaf_free_leaf_only(m, leaf) ==
    free_wrapper(m, THMAP_GETOFF(leaf), THMAP_LEAF_LEN)

\* leaf_free: free the key buffer (unless NOCOPY), then the leaf.
leaf_free(m, leaf) ==
    LET m1 == IF nocopy THEN m ELSE free_wrapper(m, m[leaf].key, m[leaf].len)
    IN  free_wrapper(m1, THMAP_GETOFF(leaf), THMAP_LEAF_LEN)

leaf_free_matches(m, leaf) ==
    /\ nocopy \/ FreeMatches(m, m[leaf].key, m[leaf].len)
    /\ FreeMatches(m, THMAP_GETOFF(leaf), THMAP_LEAF_LEN)

\* The leaf, or its key buffer, had been linked into the tree.
leaf_linked(m, leaf) ==
    \/ m[leaf].linked
    \/ (~nocopy /\ IsHeap(m[leaf].key) /\ m[m[leaf].key].linked)

\* Bookkeeping: a leaf (with its key buffer) becomes reachable from the root.
MarkLeaf(m, leaf) ==
    LET m1 == [m EXCEPT ![leaf].linked = TRUE]
    IN  IF ~nocopy /\ IsHeap(m[leaf].key)
        THEN [m1 EXCEPT ![m[leaf].key].linked = TRUE]
        ELSE m1

(***************************************************************************)
(* thmap_put.                                                              *)
(***************************************************************************)
put_leaf_create(t) ==
    LET r == th[t]
    IN  /\ r.pc = "leaf_create"
        /\ \E leaf_off \in AllocResults(mem) :
             IF leaf_off = 0
             THEN /\ mem' = mem
                  /\ nfail' = nfail + Failed(mem, leaf_off)
                  /\ th' = [th EXCEPT ![t].pc = "done", ![t].ret = NULL]
             ELSE LET m1 == [mem EXCEPT ![leaf_off].kind = "leaf"]
                  IN  \E key_off \in (IF nocopy THEN {0} ELSE AllocResults(m1)) :
                        IF ~nocopy /\ key_off = 0
                        THEN /\ mem' = mem
                             /\ nfail' = nfail + Failed(m1, key_off)
                             /\ th' = [th EXCEPT ![t].pc = "done", ![t].ret = NULL]
                        ELSE /\ mem' = leaf_create(mem, leaf_off, key_off, r.key, r.val)
                             /\ nfail' = nfail
                             /\ th' = [th EXCEPT ![t] =
                                         EnterFind([r EXCEPT !.pc = "find_edge_node",
                                                             !.leaf = THMAP_GETPTR(leaf_off)])]
        /\ UNCHANGED <<gc_list, nocopy, nops, nover, badfree, opfreed>>
        /\ Ghost(t)

\* The locked edge node's target slot: empty, a duplicate, or a collision.
put_target(t) ==
    LET r == th[t]
        target == Slot(mem, r.parent, r.slot)
        other == THMAP_NODE(target)
    IN  /\ r.pc = "put_target"
        /\ IF THMAP_INODE_P(target)
           THEN /\ mem' = MarkLeaf(node_insert(mem, r.parent, r.slot,
                                     THMAP_GETOFF(r.leaf) + THMAP_LEAF_BIT), r.leaf)
                /\ th' = [th EXCEPT ![t].pc = "out"]
                /\ UNCHANGED <<badfree, opfreed>>
           ELSE IF key_cmp_p(mem, other, r.key)
           THEN /\ mem' = leaf_free(mem, r.leaf)
                /\ badfree' = (badfree \/ ~leaf_free_matches(mem, r.leaf))
                /\ opfreed' = (opfreed \/ leaf_linked(mem, r.leaf))
                /\ th' = [th EXCEPT ![t].pc = "out", ![t].val = mem[r.leaf].val]
           ELSE /\ mem' = mem
                /\ th' = [th EXCEPT ![t].pc = "descend", ![t].other = other]
                /\ UNCHANGED <<badfree, opfreed>>
        /\ UNCHANGED <<gc_list, nocopy, nops, nover, nfail>>
        /\ Ghost(t)

\* descend: node_create, query.level++, and the colliding leaf goes into the
\* child, which no other thread can reach yet.
put_descend(t) ==
    LET r == th[t]
    IN  /\ r.pc = "descend"
        /\ \E p \in AllocResults(mem) :
             IF p = 0
             THEN /\ mem' = leaf_free(mem, r.leaf)
                  /\ badfree' = (badfree \/ ~leaf_free_matches(mem, r.leaf))
                  /\ opfreed' = (opfreed \/ leaf_linked(mem, r.leaf))
                  /\ nfail' = nfail + Failed(mem, p)
                  /\ th' = [th EXCEPT ![t].pc = "out", ![t].val = NULL]
             ELSE LET child == THMAP_GETPTR(p)
                      m1 == node_create(mem, p, r.parent)
                      q1 == [r.query EXCEPT !.level = @ + 1]
                      other_slot == hashval_getleafslot(m1, r.other, q1.level)
                  IN  /\ mem' = node_insert(m1, child, other_slot,
                                    THMAP_GETOFF(r.other) + THMAP_LEAF_BIT)
                      /\ th' = [th EXCEPT ![t].pc = "publish", ![t].child = child,
                                          ![t].query = q1,
                                          ![t].other_slot = other_slot,
                                          ![t].held = @ \cup {child}]
                      /\ UNCHANGED <<nfail, badfree, opfreed>>
        /\ UNCHANGED <<gc_list, nocopy, nops, nover>>
        /\ Ghost(t)

\* parent->slots[slot] = THMAP_GETOFF(thmap, child).
put_publish(t) ==
    LET r == th[t]
    IN  /\ r.pc = "publish"
        /\ mem' = [mem EXCEPT ![r.parent].slots[r.slot] = THMAP_GETOFF(r.child),
                              ![r.child].linked = TRUE]
        /\ th' = [th EXCEPT ![t].pc = "unlock_parent"]
        /\ UNCHANGED <<gc_list, nocopy, nops, nover, nfail, badfree, opfreed>>
        /\ Ghost(t)

\* unlock_node(parent); parent = child; the new slot; another collision?
put_unlock_parent(t) ==
    LET r == th[t]
        slot == hashval_getslot(r.query, r.key)
    IN  /\ r.pc = "unlock_parent"
        /\ mem' = unlock_node(mem, r.parent)
        /\ th' = [th EXCEPT ![t].parent = r.child,
                            ![t].held = @ \ {r.parent},
                            ![t].query = hashval_query(r.query, r.key),
                            ![t].slot = slot,
                            ![t].pc = IF slot = r.other_slot THEN "descend"
                                      ELSE "insert_leaf"]
        /\ UNCHANGED <<gc_list, nocopy, nops, nover, nfail, badfree, opfreed>>
        /\ Ghost(t)

put_insert_leaf(t) ==
    LET r == th[t]
    IN  /\ r.pc = "insert_leaf"
        /\ mem' = MarkLeaf(node_insert(mem, r.parent, r.slot,
                             THMAP_GETOFF(r.leaf) + THMAP_LEAF_BIT), r.leaf)
        /\ th' = [th EXCEPT ![t].pc = "out"]
        /\ UNCHANGED <<gc_list, nocopy, nops, nover, nfail, badfree, opfreed>>
        /\ Ghost(t)

\* thmap_put returning without unlock_node(parent).
put_out_no_unlock(t) ==
    LET r == th[t]
    IN  /\ r.pc = "out"
        /\ th' = [th EXCEPT ![t].pc = "done", ![t].ret = r.val]
        /\ UNCHANGED <<mem, gc_list, nocopy, nops, nover, nfail, badfree, opfreed>>
        /\ Ghost(t)

\* out: unlock_node(parent); return val.
put_out(t) ==
    LET r == th[t]
    IN  /\ r.pc = "out"
        /\ mem' = unlock_node(mem, r.parent)
        /\ th' = [th EXCEPT ![t].pc = "done", ![t].ret = r.val,
                            ![t].held = @ \ {r.parent}]
        /\ UNCHANGED <<gc_list, nocopy, nops, nover, nfail, badfree, opfreed>>
        /\ Ghost(t)

(***************************************************************************)
(* thmap_del.                                                              *)
(***************************************************************************)
\* The collapse loop without the NODE_COUNT test: it ascends from any node
\* below the root.
del_collapse_any(r, m) ==
    IF r.query.level # 0
    THEN LET q1 == [r.query EXCEPT !.level = @ - 1]
         IN  [r EXCEPT !.node = r.parent,
                       !.query = hashval_query(q1, r.key),
                       !.slot = hashval_getslot(q1, r.key),
                       !.parent = THMAP_NODE(m[r.parent].parent),
                       !.pc = "lock_parent"]
    ELSE [r EXCEPT !.pc = "del_unlock"]

\* thmap_del without the collapse loop: an emptied node stays where it is.
del_collapse_never(r, m) ==
    [r EXCEPT !.pc = "del_unlock"]

\* The test of the collapse loop, while (query.level && NODE_COUNT(..) == 0),
\* and, when it passes, the loop body up to lock_node(parent).
del_collapse(r, m) ==
    IF r.query.level # 0 /\ NODE_COUNT(m[r.parent].state) = 0
    THEN LET q1 == [r.query EXCEPT !.level = @ - 1]
         IN  [r EXCEPT !.node = r.parent,
                       !.query = hashval_query(q1, r.key),
                       !.slot = hashval_getslot(q1, r.key),
                       !.parent = THMAP_NODE(m[r.parent].parent),
                       !.pc = "lock_parent"]
    ELSE [r EXCEPT !.pc = "del_unlock"]

\* get_leaf and key_cmp_p under the lock; not found, or node_remove.
del_leaf(t) ==
    LET r == th[t]
        node == Slot(mem, r.parent, r.slot)
        leaf == THMAP_NODE(node)
    IN  /\ r.pc = "del_leaf"
        /\ IF THMAP_INODE_P(node) \/ ~key_cmp_p(mem, leaf, r.key)
           THEN /\ mem' = unlock_node(mem, r.parent)
                /\ th' = [th EXCEPT ![t].pc = "done", ![t].ret = NULL,
                                    ![t].held = @ \ {r.parent}]
           ELSE /\ mem' = node_remove(mem, r.parent, r.slot)
                /\ th' = [th EXCEPT ![t] =
                            del_collapse([r EXCEPT !.leaf = leaf], mem')]
        /\ UNCHANGED <<gc_list, nocopy, nops, nover, nfail, badfree, opfreed>>
        /\ Ghost(t)

\* lock_node(parent), one level up, with the emptied node still locked.
del_lock_parent(t) ==
    LET r == th[t]
    IN  /\ r.pc = "lock_parent"
        /\ ~node_locked_p(mem[r.parent].state)
        /\ mem' = lock_node(mem, r.parent)
        /\ th' = [th EXCEPT ![t].pc = "mark_deleted",
                            ![t].held = @ \cup {r.parent}]
        /\ UNCHANGED <<gc_list, nocopy, nops, nover, nfail, badfree, opfreed>>
        /\ Ghost(t)

\* The collapse loop without node->state |= NODE_DELETED.
del_mark_deleted_skip(t) ==
    LET r == th[t]
    IN  /\ r.pc = "mark_deleted"
        /\ th' = [th EXCEPT ![t].pc = "unlock_child"]
        /\ UNCHANGED <<mem, gc_list, nocopy, nops, nover, nfail, badfree, opfreed>>
        /\ Ghost(t)

\* node->state |= NODE_DELETED.
del_mark_deleted(t) ==
    LET r == th[t]
    IN  /\ r.pc = "mark_deleted"
        /\ mem' = [mem EXCEPT ![r.node].state = WordOr(@, NODE_DELETED)]
        /\ th' = [th EXCEPT ![t].pc = "unlock_child"]
        /\ UNCHANGED <<gc_list, nocopy, nops, nover, nfail, badfree, opfreed>>
        /\ Ghost(t)

del_unlock_child(t) ==
    LET r == th[t]
    IN  /\ r.pc = "unlock_child"
        /\ mem' = unlock_node(mem, r.node)
        /\ th' = [th EXCEPT ![t].pc = "remove_child", ![t].held = @ \ {r.node}]
        /\ UNCHANGED <<gc_list, nocopy, nops, nover, nfail, badfree, opfreed>>
        /\ Ghost(t)

\* node_remove(parent, slot): the slot that referenced the deleted node.
del_remove_child(t) ==
    LET r == th[t]
    IN  /\ r.pc = "remove_child"
        /\ mem' = node_remove(mem, r.parent, r.slot)
        /\ th' = [th EXCEPT ![t].pc = "stage_node"]
        /\ UNCHANGED <<gc_list, nocopy, nops, nover, nfail, badfree, opfreed>>
        /\ Ghost(t)

\* The collapse loop freeing the deleted node at once instead of staging it.
del_stage_node_free(t) ==
    LET r == th[t]
    IN  /\ r.pc = "stage_node"
        /\ mem' = free_wrapper(mem, THMAP_GETOFF(r.node), THMAP_INODE_LEN)
        /\ opfreed' = (opfreed \/ mem[r.node].linked)
        /\ th' = [th EXCEPT ![t] = del_collapse(r, mem)]
        /\ UNCHANGED <<gc_list, nocopy, nops, nover, nfail, badfree>>
        /\ Ghost(t)

\* stage_mem_gc(node, THMAP_INODE_LEN), then the loop test again.
del_stage_node(t) ==
    LET r == th[t]
    IN  /\ r.pc = "stage_node"
        /\ gc_list' = stage_mem_gc(gc_list, THMAP_GETOFF(r.node), THMAP_INODE_LEN)
        /\ th' = [th EXCEPT ![t] = del_collapse(r, mem)]
        /\ UNCHANGED <<mem, nocopy, nops, nover, nfail, badfree, opfreed>>
        /\ Ghost(t)

del_unlock(t) ==
    LET r == th[t]
    IN  /\ r.pc = "del_unlock"
        /\ mem' = unlock_node(mem, r.parent)
        /\ th' = [th EXCEPT ![t].pc = "stage_key", ![t].held = @ \ {r.parent}]
        /\ UNCHANGED <<gc_list, nocopy, nops, nover, nfail, badfree, opfreed>>
        /\ Ghost(t)

\* val = leaf->val; stage_mem_gc(leaf->key, leaf->len) unless NOCOPY.
del_stage_key(t) ==
    LET r == th[t]
    IN  /\ r.pc = "stage_key"
        /\ gc_list' = IF nocopy THEN gc_list
                      ELSE stage_mem_gc(gc_list, mem[r.leaf].key, mem[r.leaf].len)
        /\ th' = [th EXCEPT ![t].pc = "stage_leaf", ![t].val = mem[r.leaf].val]
        /\ UNCHANGED <<mem, nocopy, nops, nover, nfail, badfree, opfreed>>
        /\ Ghost(t)

del_stage_leaf(t) ==
    LET r == th[t]
    IN  /\ r.pc = "stage_leaf"
        /\ gc_list' = stage_mem_gc(gc_list, THMAP_GETOFF(r.leaf), THMAP_LEAF_LEN)
        /\ th' = [th EXCEPT ![t].pc = "done", ![t].ret = r.val]
        /\ UNCHANGED <<mem, nocopy, nops, nover, nfail, badfree, opfreed>>
        /\ Ghost(t)

(***************************************************************************)
(* thmap_gc.                                                               *)
(***************************************************************************)
\* gc = atomic_exchange(&thmap->gc_list, NULL).
gc_exchange(t) ==
    LET r == th[t]
    IN  /\ r.pc = "gc_exchange"
        /\ gc_list' = <<>>
        /\ th' = [th EXCEPT ![t].pc = "gc_free", ![t].gc = gc_list]
        /\ UNCHANGED <<mem, nocopy, nops, nover, nfail, badfree, opfreed>>
        /\ Ghost(t)

\* One turn of while (gc): ops->free(gc->addr, gc->len); gc = next.
\* Bookkeeping: th[t].ret counts the records freed (thmap_gc returns nothing).
gc_free(t) ==
    LET r == th[t]
    IN  /\ r.pc = "gc_free"
        /\ IF r.gc = <<>>
           THEN /\ th' = [th EXCEPT ![t].pc = "done"]
                /\ UNCHANGED <<mem, badfree>>
           ELSE /\ mem' = free_wrapper(mem, Head(r.gc).addr, Head(r.gc).len)
                /\ badfree' = (badfree \/
                                 ~FreeMatches(mem, Head(r.gc).addr, Head(r.gc).len))
                /\ th' = [th EXCEPT ![t].gc = Tail(r.gc), ![t].ret = @ + 1]
        /\ UNCHANGED <<gc_list, nocopy, nops, nover, nfail, opfreed>>
        /\ Ghost(t)

(***************************************************************************)
(* thmap_create and the steps of a thread.                                 *)
(***************************************************************************)
thmap_create ==
    /\ mem = [a \in Addr |->
                IF a = root THEN ZeroNode(THMAP_ROOT_LEN, ROOT_SIZE) ELSE FreeCell]
    /\ gc_list = <<>>
    /\ th = [t \in Threads |-> Idle]
    /\ nops = 0
    /\ nover = 0
    /\ nfail = 0
    /\ badfree = FALSE
    /\ opfreed = FALSE

\* A step of a call in progress.
Work(t) ==
    \/ Return(t)
    \/ find_edge_node(t)
    \/ fenl_lock(t)
    \/ fenl_recheck(t)
    \/ thmap_get(t)
    \/ put_leaf_create(t)
    \/ put_target(t)
    \/ put_descend(t)
    \/ put_publish(t)
    \/ put_unlock_parent(t)
    \/ put_insert_leaf(t)
    \/ put_out(t)
    \/ del_leaf(t)
    \/ del_lock_parent(t)
    \/ del_mark_deleted(t)
    \/ del_unlock_child(t)
    \/ del_remove_child(t)
    \/ del_stage_node(t)
    \/ del_unlock(t)
    \/ del_stage_key(t)
    \/ del_stage_leaf(t)
    \/ gc_exchange(t)
    \/ gc_free(t)

Step(t) ==
    \/ Call_get(t)
    \/ Call_put(t)
    \/ Call_del(t)
    \/ Call_gc(t)
    \/ Work(t)

Next == \E t \in Threads : Step(t)

GhostInit ==
    /\ amap = [k \in Keys |-> NULL]
    /\ life = [k \in Keys |-> 0]
    /\ snap = <<>>
    /\ stable = [t \in Threads |-> FALSE]
    /\ pushed = {}

\* Two threads, keys copied; the lookups' keys are watched.
Init ==
    /\ thmap_create /\ nocopy = FALSE
    /\ GhostInit /\ mode = "plain" /\ lin = {}

Spec == Init /\ [][Next]_vars

\* One call at a time, in both key modes, checked against the abstract map.
InitSeq ==
    /\ thmap_create /\ nocopy \in BOOLEAN
    /\ GhostInit /\ mode = "seq" /\ lin = {}

SpecSeq == InitSeq /\ [][Next]_vars

\* Two threads, with the linearizability monitor.
InitLin ==
    /\ thmap_create /\ nocopy = FALSE
    /\ GhostInit /\ mode = "lin"
    /\ lin = {[m |-> [k \in Keys |-> NULL], p |-> [t \in Threads |-> NoCall]]}

SpecLin == InitLin /\ [][Next]_vars

\* Two threads under a fair scheduler: a thread whose next step can be taken
\* is not left without the processor for ever.  No bookkeeping is kept.
InitFair ==
    /\ thmap_create /\ nocopy = FALSE
    /\ GhostInit /\ mode = "fair" /\ lin = {}

SpecFair == InitFair /\ [][Next]_vars /\ \A t \in Threads : WF_vars(Work(t))

(***************************************************************************)
(* The retirement list on its own: stage_mem_gc and thmap_gc called by two *)
(* threads with no quiescence between them.  stage_mem_gc is two steps     *)
(* here, the load of the head and the compare-and-swap.                    *)
(***************************************************************************)
GcGhost == mode' = mode /\ UNCHANGED <<amap, life, snap, stable, lin>>

\* The allocations a caller may still retire: live, not the root, and not
\* handed to stage_mem_gc before.
Retirable ==
    {a \in Addr : /\ a # THMAP_GETPTR(root) /\ mem[a].kind # "free"
                  /\ a \notin pushed
                  /\ \A u \in Threads : ~(th[u].op = "stage" /\ th[u].node = a)}

\* stage_mem_gc(thmap, addr, len) is entered: gc = malloc(), gc->addr = addr,
\* gc->len = len.
Call_stage(t) ==
    /\ th[t].pc = "idle"
    /\ \E a \in Retirable :
         th' = [th EXCEPT ![t] = [Idle EXCEPT !.pc = "stage_load", !.op = "stage",
                                              !.node = a]]
    /\ UNCHANGED <<mem, gc_list, nocopy, nops, nover, nfail, badfree, opfreed, pushed>>
    /\ GcGhost

\* thmap_gc is entered, whatever the other thread is doing.
Call_drain(t) ==
    /\ th[t].pc = "idle"
    /\ th' = [th EXCEPT ![t] = [Idle EXCEPT !.pc = "gc_exchange", !.op = "gc"]]
    /\ UNCHANGED <<mem, gc_list, nocopy, nops, nover, nfail, badfree, opfreed, pushed>>
    /\ GcGhost

\* retry: gc->next = head = thmap->gc_list.
stage_load(t) ==
    LET r == th[t]
    IN  /\ r.pc = "stage_load"
        /\ th' = [th EXCEPT ![t].pc = "stage_cas", ![t].gc = gc_list]
        /\ UNCHANGED <<mem, gc_list, nocopy, nops, nover, nfail, badfree, opfreed, pushed>>
        /\ GcGhost

\* The compare of the CAS can find thmap->gc_list equal to the loaded head:
\* the list is as it was loaded, or the loaded head's record was freed by a
\* drain and malloc may have given its address to the record now at the head.
HeadMayEqual(head, list) ==
    \/ head = list
    \/ /\ head # <<>> /\ list # <<>>
       /\ mem[Head(head).addr].kind = "free"

\* A stage_mem_gc that stores the new head without comparing.
stage_cas_store(t) ==
    LET r == th[t]
    IN  /\ r.pc = "stage_cas"
        /\ gc_list' = stage_mem_gc(r.gc, THMAP_GETOFF(r.node), mem[r.node].size)
        /\ pushed' = pushed \cup {r.node}
        /\ th' = [th EXCEPT ![t].pc = "done"]
        /\ UNCHANGED <<mem, nocopy, nops, nover, nfail, badfree, opfreed>>
        /\ GcGhost

\* atomic_compare_exchange_weak(&thmap->gc_list, head, gc): on success gc,
\* whose next is the address compared equal, is the head; on failure, which
\* a weak CAS may also report for no reason, goto retry.
stage_cas(t) ==
    LET r == th[t]
    IN  /\ r.pc = "stage_cas"
        /\ \/ /\ HeadMayEqual(r.gc, gc_list)
              /\ gc_list' = stage_mem_gc(gc_list, THMAP_GETOFF(r.node),
                                         mem[r.node].size)
              /\ pushed' = pushed \cup {r.node}
              /\ th' = [th EXCEPT ![t].pc = "done"]
           \/ /\ th' = [th EXCEPT ![t].pc = "stage_load"]
              /\ UNCHANGED <<gc_list, pushed>>
        /\ UNCHANGED <<mem, nocopy, nops, nover, nfail, badfree, opfreed>>
        /\ GcGhost

NextGc ==
    \E t \in Threads :
        \/ Call_stage(t)
        \/ Call_drain(t)
        \/ stage_load(t)
        \/ stage_cas(t)
        \/ gc_exchange(t)
        \/ gc_free(t)
        \/ Return(t)

\* A map whose heap holds GcBlocks allocations of different lengths, none of
\* them retired yet.
InitGc ==
    /\ mem = [a \in Addr |->
                IF a = root THEN ZeroNode(THMAP_ROOT_LEN, ROOT_SIZE)
                ELSE IF (a \div 4) - 1 \in 1..GcBlocks
                     THEN [FreeCell EXCEPT !.kind = "key", !.size = (a \div 4) - 1]
                     ELSE FreeCell]
    /\ gc_list = <<>>
    /\ th = [t \in Threads |-> Idle]
    /\ nops = 0 /\ nover = 0 /\ nfail = 0
    /\ badfree = FALSE /\ opfreed = FALSE
    /\ nocopy = FALSE
    /\ GhostInit /\ mode = "gc" /\ lin = {}

SpecGc == InitGc /\ [][NextGc]_vars

(***************************************************************************)
(* hashval_getslot on its own: applied once to a query drawn from every    *)
(* level, every state of the cache (empty, stale, or holding a word of the *)
(* level's index) and a few hash words.                                    *)
(***************************************************************************)
\* Hash words a query's cache may hold: no bit, all bits, alternate bits,
\* and the words of keys 1 and 3.
HashWords ==
    {Word(0, 0), Word(65535, 65535), Word(43690, 21845), Word(0, 5), Word(0, 4101)}

\* The query and key hashval_getslot is called with.
HashInputs ==
    {[Idle EXCEPT !.pc = "getslot", !.op = "hash", !.key = k,
                  !.query = [level |-> l, hashidx |-> i, hashval |-> w]] :
        k \in Keys, l \in 0..MaxLevel, i \in -1..2, w \in HashWords}

\* off = hashval_getslot(&query, key, len): the slot returned and the query
\* as the call leaves it.
hash_getslot(t) ==
    LET r == th[t]
    IN  /\ r.pc = "getslot"
        /\ th' = [th EXCEPT ![t].query = hashval_query(r.query, r.key),
                            ![t].slot = hashval_getslot(r.query, r.key),
                            ![t].pc = "done"]
        /\ UNCHANGED <<mem, gc_list, nocopy, nops, nover, nfail, badfree, opfreed, pushed>>
        /\ GcGhost

NextHash == \E t \in Threads : hash_getslot(t)

\* The first thread is about to call hashval_getslot; no map call is made.
InitHash ==
    /\ mem = [a \in Addr |->
                IF a = root THEN ZeroNode(THMAP_ROOT_LEN, ROOT_SIZE) ELSE FreeCell]
    /\ gc_list = <<>>
    /\ \E r \in HashInputs :
           th = [t \in Threads |-> IF t = 1 THEN r ELSE Idle]
    /\ nops = 0 /\ nover = 0 /\ nfail = 0
    /\ badfree = FALSE /\ opfreed = FALSE
    /\ nocopy = FALSE
    /\ GhostInit /\ mode = "hash" /\ lin = {}

SpecHash == InitHash /\ [][NextHash]_vars

(***************************************************************************)
(* PROPERTIES of the sequential interface, checked under SpecSeq.          *)
(***************************************************************************)
\* Every thread is between calls or has a result it has not yet returned.
Settled == \A t \in Threads : th[t].pc \in {"idle", "done"}

\* C1: an insert of a key that is already present, which did not fail,
\* returns the value stored before, and leaves the map as it was: the heap is
\* the heap at the call, and a lookup still finds the value stored before.
C1_DuplicateInsert ==
    \A t \in Threads :
        LET r == th[t]
        IN  (r.pc = "done" /\ r.op = "put" /\ amap[r.key] # NULL /\ r.ret # NULL)
            => /\ r.ret = amap[r.key]
               /\ mem = snap
               /\ Lookup(mem, r.key) = amap[r.key]

\* C2: a lookup returns the value of the last successful insert of its key
\* that no remove followed, and null for a key with no such insert; between
\* calls the tree holds exactly the abstract map.
C2_PresenceRoundTrip ==
    /\ \A t \in Threads :
           (th[t].pc = "done" /\ th[t].op = "get") => th[t].ret = amap[th[t].key]
    /\ Quiescent => \A k \in Keys : Lookup(mem, k) = amap[k]

\* A lookup of key 2 has found its value at level 2 of a tree that holds all
\* three keys (keys 1 and 2 share their root slot and their level-1 slot).
C2_Witness ==
    \E t \in Threads :
        /\ th[t].pc = "done" /\ th[t].op = "get" /\ th[t].key = 2
        /\ th[t].query.level = 2
        /\ th[t].ret # NULL /\ th[t].ret = amap[2]
        /\ \A k \in Keys : amap[k] # NULL

\* C3: a remove returns the value stored and unlinks the key, leaving every
\* other key as it was; a removed key is then missing to lookup and to a
\* second remove; an insert after the remove stores and returns its own
\* value, which lookups return from then on.
C3_DeleteRoundTrip ==
    \A t \in Threads :
        LET r == th[t]
            others == \A k \in Keys \ {r.key} : Lookup(mem, k) = amap[k]
        IN  r.pc = "done" =>
              /\ r.op = "del" =>
                   /\ r.ret = amap[r.key]
                   /\ Lookup(mem, r.key) = NULL
                   /\ others
              /\ (r.op = "get" /\ life[r.key] = 1) => r.ret = NULL
              /\ (r.op = "put" /\ life[r.key] = 1 /\ r.ret # NULL) =>
                   /\ r.ret = r.val
                   /\ Lookup(mem, r.key) = r.val
                   /\ others
              /\ (r.op = "get" /\ life[r.key] = 2) =>
                   (r.ret # NULL /\ r.ret = amap[r.key])

\* A lookup has returned the value of an insert that followed a remove of
\* its key.
C3_Witness ==
    \E t \in Threads :
        /\ th[t].pc = "done" /\ th[t].op = "get"
        /\ life[th[t].key] = 2
        /\ th[t].ret # NULL /\ th[t].ret = amap[th[t].key]

\* C7: an insert that returns null (an allocation failed) has changed
\* nothing: the heap is the heap at the call.
C7_FailedInsert ==
    \A t \in Threads :
        (th[t].pc = "done" /\ th[t].op = "put" /\ th[t].ret = NULL) => mem = snap

(***************************************************************************)
(* PROPERTIES of concurrent runs.                                          *)
(***************************************************************************)
\* The allocations the slots of inner node a refer to.
Children(m, a) ==
    IF m[a].kind = "inode"
    THEN {THMAP_NODE(m[a].slots[i]) :
            i \in {j \in DOMAIN m[a].slots : m[a].slots[j] # 0}}
    ELSE {}

RECURSIVE Reach(_, _, _)
Reach(m, frontier, seen) ==
    IF frontier = {} THEN seen
    ELSE Reach(m,
               ((UNION {Children(m, a) : a \in frontier}) \cap Addr)
                   \ (seen \cup frontier),
               seen \cup frontier)

\* What is linked in the tree: reachable from the root through slots.
Linked(m) == Reach(m, {THMAP_GETPTR(root)}, {})

LinkedLeaves(m) == {a \in Linked(m) : m[a].kind # "inode"}

\* The root is that of a freshly created map.
RootFresh(m) ==
    /\ m[THMAP_GETPTR(root)].state = WordZero
    /\ \A i \in DOMAIN m[THMAP_GETPTR(root)].slots :
           m[THMAP_GETPTR(root)].slots[i] = 0

\* Only the root is allocated.
AllFreed(m) == \A a \in Addr \ {THMAP_GETPTR(root)} : m[a].kind = "free"

\* C4: the calls made so far, with the results they returned, have an order
\* that respects real time and is a run of an atomic key -> value map.
C4_Linearizable == lin # {}

\* C5: a lookup returns null only after its last slot load gave an empty
\* slot or a leaf with another key; and a lookup whose key was in the map
\* in every state since its call returns a value.
C5_LookupDecidedByOneLoad ==
    \A t \in Threads :
        (th[t].pc = "done" /\ th[t].op = "get") =>
            /\ th[t].ret = NULL => th[t].saw \in {"empty", "leaf"}
            /\ stable[t] => th[t].ret # NULL

\* C6: when no call is in progress and no leaf is linked, the root has count
\* zero, is unlocked, and its slots are all zero, so that no inner node is
\* linked either.
C6_OccupancyCollapse ==
    (Settled /\ LinkedLeaves(mem) = {}) =>
        (RootFresh(mem) /\ Linked(mem) = {THMAP_GETPTR(root)})

\* Two inner nodes have been unlinked and staged by removes, one of which
\* overlapped another call, and the root is fresh again.
C6_Witness ==
    /\ Settled /\ LinkedLeaves(mem) = {} /\ RootFresh(mem)
    /\ nover >= 1
    /\ Cardinality({i \in DOMAIN gc_list : gc_list[i].len = THMAP_INODE_LEN}) >= 2

\* C8: no free names an offset and length other than a live allocation's;
\* and once every key is removed and the retirement list drained, nothing
\* but the root is allocated.
C8_AllocatorAccounting ==
    /\ ~badfree
    /\ (Settled /\ LinkedLeaves(mem) = {} /\ gc_list = <<>>) => AllFreed(mem)

\* A drain has freed six allocations (two leaves, two key buffers and two
\* inner nodes, at least) of calls that overlapped, leaving only the root.
C8_Witness ==
    /\ \E t \in Threads :
           th[t].pc = "done" /\ th[t].op = "gc" /\ th[t].ret >= 6
    /\ nover >= 1 /\ gc_list = <<>> /\ AllFreed(mem)

\* The slot value v refers to a live allocation of its kind.
LiveKind(m, v) ==
    \/ v = 0
    \/ /\ IsHeap(THMAP_NODE(v))
       /\ IF THMAP_INODE_P(v)
          THEN m[THMAP_NODE(v)].kind = "inode"
          ELSE /\ m[THMAP_NODE(v)].kind = "leaf"
               /\ IsHeap(m[THMAP_NODE(v)].key) => m[m[THMAP_NODE(v)].key].kind = "key"

\* C9: get, put and del free nothing that was ever linked in the tree; and
\* the node a lookup is at, and what the slot it loads next refers to, are
\* live allocations.
C9_OnlyDrainFrees ==
    /\ ~opfreed
    /\ \A t \in Threads :
           (th[t].op = "get" /\ th[t].pc \in {"find_edge_node", "get_leaf"}) =>
               /\ IsHeap(th[t].parent)
               /\ mem[th[t].parent].kind = "inode"
               /\ LiveKind(mem, Slot(mem, th[t].parent, th[t].slot))

\* A lookup is at a node that a remove has unlinked and staged.
C9_Witness ==
    \E t \in Threads :
        /\ th[t].op = "get" /\ th[t].pc \in {"find_edge_node", "get_leaf"}
        /\ \E i \in DOMAIN gc_list : gc_list[i].addr = THMAP_GETOFF(th[t].parent)
        /\ mem[th[t].parent].kind = "inode"

\* Thread t spins in lock_node: the node it wants is locked.
Spinning(t) ==
    /\ th[t].pc \in {"lock_node", "lock_parent"}
    /\ node_locked_p(mem[th[t].parent].state)

NoDeadlock ==
    (\E t \in Threads : th[t].pc \notin {"idle", "done"}) =>
        \E t \in Threads : th[t].pc \notin {"idle", "done"} /\ ~Spinning(t)

\* C10: the unfinished threads are never all spinning in lock_node, and under
\* fair scheduling every call in progress comes to its return.
C10_RunToCompletion ==
    /\ []NoDeadlock
    /\ \A t \in Threads :
           (th[t].pc \notin {"idle", "done"}) ~> (th[t].pc = "done")

\* A writer has locked its edge node and finds it DELETED: it is about to
\* unlock and retry from the root.
C10_Witness ==
    \E t \in Threads :
        /\ th[t].pc = "recheck"
        /\ node_deleted_p(mem[th[t].parent].state)

(***************************************************************************)
(* PROPERTIES of readers, locks and the DELETED flag.                      *)
(***************************************************************************)
\* The first level at which the slots of keys k1 and k2 differ.
RECURSIVE SeparationLevel(_, _, _)
SeparationLevel(k1, k2, level) ==
    IF hashval_getslot(THMAP_QUERY_INIT(level), k1)
         # hashval_getslot(THMAP_QUERY_INIT(level), k2)
    THEN level
    ELSE SeparationLevel(k1, k2, level + 1)

\* The height (in nodes) of the tallest tree the callers' keys can build.
MaxHeight ==
    LET pairs == {<<k1, k2>> \in Keys \X Keys : k1 # k2}
        lv == {SeparationLevel(p[1], p[2], 0) : p \in pairs}
    IN  1 + (CHOOSE l \in lv : \A o \in lv : o <= l)

\* C11: a lookup in progress can always take its next step, whatever locks
\* are held; it makes one slot load per node of its descent and one more in
\* get_leaf, never starting again, so that it is done after (nodes on its
\* path) + 1 loads, and its path is no longer than the tallest tree.
C11_ReadersWaitFree ==
    \A t \in Threads :
        LET r == th[t]
        IN  r.op = "get" =>
              /\ r.pc \in {"find_edge_node", "get_leaf", "done"}
              /\ r.pc # "done" => ENABLED Work(t)
              /\ r.pc = "find_edge_node" => r.loads = r.query.level
              /\ r.pc = "get_leaf" => r.loads = r.query.level + 1
              /\ r.pc = "done" => r.loads = r.query.level + 2
              /\ r.query.level + 1 <= MaxHeight

\* A lookup has returned a value from a node at level 1 that a writer, which
\* has not finished, holds locked.
C11_Witness ==
    \E t \in Threads :
        /\ th[t].pc = "done" /\ th[t].op = "get" /\ th[t].ret # NULL
        /\ th[t].query.level >= 1
        /\ node_locked_p(mem[th[t].parent].state)

\* What a node's lock guards: its slots, its count and its DELETED flag.
Guarded(c) == <<c.slots, NODE_COUNT(c.state), node_deleted_p(c.state)>>

\* Each locked node is held by exactly one thread, and only locked nodes are.
MutexInv ==
    /\ \A t \in Threads : \A a \in th[t].held :
           mem[a].kind = "inode" /\ node_locked_p(mem[a].state)
    /\ \A t, u \in Threads : t # u => th[t].held \cap th[u].held = {}
    /\ \A a \in Addr :
           (mem[a].kind = "inode" /\ node_locked_p(mem[a].state))
               => \E t \in Threads : a \in th[t].held
    /\ \A t \in Threads : th[t].pc \in {"idle", "done"} => th[t].held = {}

\* A step that changes what the lock of a linked node guards is a step of
\* the thread that holds that lock.
StoreByHolder ==
    \A a \in Linked(mem) :
        (mem[a].kind = "inode" /\ mem'[a].kind = "inode"
         /\ Guarded(mem[a]) # Guarded(mem'[a]))
            => \E t \in Threads : th'[t] # th[t] /\ a \in th[t].held

\* C12: at most one thread holds a node's LOCKED bit, and every store to a
\* linked node's slots, count or DELETED flag is made by the holder.
C12_MutualExclusion == []MutexInv /\ [][StoreByHolder]_vars

\* A writer holds two nodes (a parent and its child) while the other thread
\* spins in lock_node on one of them.
C12_Witness ==
    \E t, u \in Threads :
        /\ t # u
        /\ Cardinality(th[t].held) = 2
        /\ th[u].pc = "lock_node" /\ th[u].parent \in th[t].held

\* The node has no entry: count zero and every slot zero.
EmptyNode(c) == NODE_COUNT(c.state) = 0 /\ \A i \in DOMAIN c.slots : c.slots[i] = 0

\* A step that sets DELETED on a node is a step of a thread holding that node
\* and its parent, on an empty node that is not the root; and a DELETED node
\* stays DELETED and empty for as long as it is allocated.
DeletedRule ==
    \A a \in Addr :
        (mem[a].kind = "inode" /\ mem'[a].kind = "inode") =>
            /\ (~node_deleted_p(mem[a].state) /\ node_deleted_p(mem'[a].state)) =>
                   /\ a # THMAP_GETPTR(root)
                   /\ EmptyNode(mem[a]) /\ EmptyNode(mem'[a])
                   /\ \E t \in Threads :
                          /\ th'[t] # th[t]
                          /\ a \in th[t].held
                          /\ THMAP_NODE(mem[a].parent) \in th[t].held
            /\ node_deleted_p(mem[a].state) =>
                   (node_deleted_p(mem'[a].state) /\ EmptyNode(mem'[a]))

RootNotDeleted == ~node_deleted_p(mem[THMAP_GETPTR(root)].state)

\* C13: DELETED is set only by a thread that holds the node and its parent,
\* on an empty node other than the root; the root is never DELETED; DELETED
\* and emptiness, once set, stay.
C13_DeletedRules == []RootNotDeleted /\ [][DeletedRule]_vars

\* A remove has just set DELETED on a node while holding it and its parent,
\* and the other thread is in a call.
C13_Witness ==
    \E t, u \in Threads :
        /\ t # u /\ th[u].pc \notin {"idle", "done"}
        /\ th[t].pc = "unlock_child"
        /\ node_deleted_p(mem[th[t].node].state)
        /\ {th[t].node, th[t].parent} \subseteq th[t].held

\* What find_edge_node_locked has returned to thread t: a node t holds, that
\* is linked and not DELETED, with a target slot that is empty or a leaf.
EdgeNodeInv ==
    \A t \in Threads :
        th[t].pc \in {"put_target", "del_leaf"} =>
            LET target == Slot(mem, th[t].parent, th[t].slot)
            IN  /\ th[t].parent \in th[t].held
                /\ ~node_deleted_p(mem[th[t].parent].state)
                /\ th[t].parent \in Linked(mem)
                /\ target = 0 \/ ~THMAP_INODE_P(target)

\* The re-check of thread t: on a DELETED node, or a target slot that holds
\* an inner node, it unlocks and is at the root, level 0, again.
RetryRule ==
    \A t \in Threads :
        LET r == th[t]
            target == Slot(mem, r.parent, r.slot)
        IN  (r.pc = "recheck" /\ th'[t] # r
             /\ (node_deleted_p(mem[r.parent].state)
                 \/ (target # 0 /\ THMAP_INODE_P(target)))) =>
                /\ th'[t].pc = "find_edge_node"
                /\ th'[t].parent = THMAP_GETPTR(root)
                /\ th'[t].query.level = 0
                /\ r.parent \notin th'[t].held
                /\ ~node_locked_p(mem'[r.parent].state)

\* A step that stores a leaf or a child into a slot stores into a node that
\* is not DELETED and that is linked, or is the storing thread's new child,
\* which it publishes next.
StoreRule ==
    \A a \in Addr :
        (mem[a].kind = "inode" /\ mem'[a].kind = "inode"
         /\ \E i \in DOMAIN mem[a].slots :
                mem'[a].slots[i] # 0 /\ mem'[a].slots[i] # mem[a].slots[i]) =>
            /\ ~node_deleted_p(mem[a].state)
            /\ a \in Linked(mem)

\* An allocation that becomes an inner node in a step is the child that
\* node_create returned to the stepping thread, which holds it and publishes
\* it next.
NewChildRule ==
    \A a \in Addr :
        (mem[a].kind # "inode" /\ mem'[a].kind = "inode") =>
            \E t \in Threads :
                /\ th'[t].pc = "publish" /\ th'[t].child = a
                /\ a \in th'[t].held

\* C14: find_edge_node_locked returns a locked, linked, non-DELETED node
\* whose slot is free or a leaf, and otherwise restarts from the root; no
\* store of a leaf or child goes into a DELETED or unlinked node.
C14_NoWriteToRetired ==
    []EdgeNodeInv /\ [][RetryRule /\ StoreRule /\ NewChildRule]_vars

\* A writer has locked its edge node and finds that the target slot now
\* holds an inner node: it is about to unlock and restart.
C14_Witness ==
    \E t \in Threads :
        /\ th[t].pc = "recheck"
        /\ ~node_deleted_p(mem[th[t].parent].state)
        /\ Slot(mem, th[t].parent, th[t].slot) # 0
        /\ THMAP_INODE_P(Slot(mem, th[t].parent, th[t].slot))

(***************************************************************************)
(* PROPERTIES of contraction, expansion and retirement.                    *)
(***************************************************************************)
\* The inner nodes with a slot that refers to allocation a.
Referrers(m, a) ==
    {b \in Addr : m[b].kind = "inode"
                  /\ \E i \in DOMAIN m[b].slots :
                         m[b].slots[i] # 0 /\ THMAP_NODE(m[b].slots[i]) = a}

\* The offsets staged on the retirement list.
Staged(list) == {list[i].addr : i \in DOMAIN list}

\* The steps of a contraction, each recognised by its store, find memory as
\* the steps before it left it.
ContractionOrder ==
    \A a \in Addr :
        (mem[a].kind = "inode" /\ mem'[a].kind = "inode") =>
            LET par == THMAP_NODE(mem[a].parent)
                me == {t \in Threads : th'[t] # th[t]}
            IN  \* lock parent: by a thread that holds the emptied child
                /\ (a # THMAP_GETPTR(root)
                    /\ \E t \in me : a \in th[t].held /\ par \in th'[t].held \ th[t].held) =>
                       (EmptyNode(mem[a]) /\ ~node_deleted_p(mem[a].state)
                        /\ par \in Referrers(mem, a))
                \* set DELETED: child and parent locked, child empty, still referenced
                /\ (~node_deleted_p(mem[a].state) /\ node_deleted_p(mem'[a].state)) =>
                       (EmptyNode(mem[a])
                        /\ \E t \in me : {a, par} \subseteq th[t].held
                        /\ par \in Referrers(mem, a))
                \* unlock child (by the thread that set DELETED, which holds the
                \* parent): the parent stays locked and still refers to the child
                /\ (node_deleted_p(mem[a].state) /\ node_locked_p(mem[a].state)
                    /\ ~node_locked_p(mem'[a].state)
                    /\ \E t \in me : {a, par} \subseteq th[t].held) =>
                       (\E t \in me : par \in th'[t].held
                        /\ par \in Referrers(mem', a))
                \* clear the parent's slot: child DELETED and let go, not yet staged
                /\ (Referrers(mem, a) # {} /\ Referrers(mem', a) = {}) =>
                       (node_deleted_p(mem[a].state)
                        /\ EmptyNode(mem[a])
                        /\ THMAP_GETOFF(a) \notin Staged(gc_list)
                        /\ \E t \in me : par \in th[t].held /\ a \notin th[t].held)

\* An offset is staged only when no slot refers to it any more: an inner node
\* after its parent's slot was cleared (and it is DELETED and empty; a writer
\* that was spinning on it may hold it until its re-check), a leaf after its
\* slot was cleared, a key buffer after its leaf's slot was.
StagedUnlinked ==
    \A a \in Staged(gc_list) :
        /\ IsHeap(a)
        /\ Referrers(mem, a) = {}
        /\ a \notin Linked(mem)
        /\ mem[a].kind = "inode" =>
               (node_deleted_p(mem[a].state) /\ EmptyNode(mem[a]))
        /\ mem[a].kind = "key" =>
               \A l \in LinkedLeaves(mem) : mem[l].key # a

\* C15: contraction goes lock child, clear its last slot, lock parent, set
\* DELETED, unlock child, clear the parent's slot, stage; nothing is staged
\* while a slot still refers to it.
C15_ContractionOrder == []StagedUnlinked /\ [][ContractionOrder]_vars

\* A remove is about to stage a node it has marked DELETED, unlocked and
\* unlinked from its parent, while the other thread holds that node's lock
\* (it was spinning on it and will find it DELETED).
C15_Witness ==
    \E t, u \in Threads :
        /\ t # u /\ th[t].node \in th[u].held
        /\ th[t].pc = "stage_node"
        /\ node_deleted_p(mem[th[t].node].state)
        /\ Referrers(mem, th[t].node) = {}
        /\ THMAP_GETOFF(th[t].node) \notin Staged(gc_list)

\* The level of inner node a: the length of its parent chain.
RECURSIVE Depth(_, _)
Depth(m, a) ==
    IF a = THMAP_GETPTR(root) \/ ~IsHeap(a) THEN 0
    ELSE 1 + Depth(m, THMAP_NODE(m[a].parent))

\* A step that stores an inner node's offset into a slot of node b replaces a
\* leaf by a child that was complete before the step: LOCKED with count 1,
\* its parent field b, the replaced leaf at the slot of that leaf's own hash
\* at the child's level and nothing else; b is locked by the storing thread
\* before and after the step and keeps its count.
PublishRule ==
    \A b \in Addr :
        (mem[b].kind = "inode" /\ mem'[b].kind = "inode") =>
            \A i \in DOMAIN mem[b].slots :
                LET old == mem[b].slots[i]
                    new == mem'[b].slots[i]
                    c == THMAP_NODE(new)
                IN  (new # old /\ new # 0 /\ THMAP_INODE_P(new)) =>
                      /\ old # 0 /\ ~THMAP_INODE_P(old)
                      /\ IsHeap(c) /\ mem[c].kind = "inode"
                      /\ mem[c].size = THMAP_INODE_LEN
                      /\ mem[c].state = WordInc(NODE_LOCKED)
                      /\ mem[c].parent = THMAP_GETOFF(b)
                      /\ \A j \in DOMAIN mem[c].slots :
                             mem[c].slots[j] =
                                IF j = hashval_getleafslot(mem, THMAP_NODE(old),
                                                           Depth(mem, b) + 1)
                                THEN old ELSE 0
                      /\ mem'[c].state = mem[c].state /\ mem'[c].slots = mem[c].slots
                      /\ \E t \in Threads :
                             /\ th'[t] # th[t]
                             /\ {b, c} \subseteq th[t].held
                             /\ {b, c} \subseteq th'[t].held
                      /\ node_locked_p(mem'[b].state)
                      /\ NODE_COUNT(mem'[b].state) = NODE_COUNT(mem[b].state)

\* C16: expansion publishes a complete, locked child holding the colliding
\* leaf, keeps the parent locked across the store and its count unchanged.
C16_ExpansionPublishesComplete == [][PublishRule]_vars

\* An insert has published its second new child, at level 2, into the first,
\* and still holds both.
C16_Witness ==
    \E t \in Threads :
        /\ th[t].pc = "unlock_parent" /\ th[t].query.level = 2
        /\ Slot(mem, th[t].parent, th[t].slot) = THMAP_GETOFF(th[t].child)
        /\ {th[t].parent, th[t].child} \subseteq th[t].held

(***************************************************************************)
(* The retirement list, checked under SpecGc.                              *)
(***************************************************************************)
\* The records a drain has taken and not yet freed, over all drains.
RECURSIVE Taken(_)
Taken(T) ==
    IF T = {} THEN <<>>
    ELSE LET t == CHOOSE u \in T : TRUE
         IN  (IF th[t].op = "gc" THEN th[t].gc ELSE <<>>) \o Taken(T \ {t})

\* The records on the list or taken by a drain.
Queued == gc_list \o Taken(Threads)

\* Every pushed allocation has been freed or is queued exactly once with its
\* own length; nothing queued has been freed or was never pushed; no free
\* was given a dead allocation.
QueueInv ==
    /\ ~badfree
    /\ \A a \in pushed :
          \/ mem[a].kind = "free"
          \/ Cardinality({i \in DOMAIN Queued :
                             Queued[i].addr = THMAP_GETOFF(a)}) = 1
    /\ \A i \in DOMAIN Queued :
          /\ THMAP_GETPTR(Queued[i].addr) \in pushed
          /\ mem[THMAP_GETPTR(Queued[i].addr)].kind # "free"
          /\ Queued[i].len = mem[THMAP_GETPTR(Queued[i].addr)].size

\* The swap of a drain takes the whole list, so every record pushed before
\* it and not taken by an earlier drain; an allocation is freed only by the
\* drain that took its record, as that drain's next record; and a drain
\* returns only when it has freed all it took.
DrainRule ==
    \A t \in Threads :
        /\ (th[t].pc = "gc_exchange" /\ th'[t].pc # "gc_exchange") =>
              /\ th'[t].gc = gc_list /\ gc_list' = <<>>
              /\ \A a \in pushed :
                    mem[a].kind # "free" =>
                       \E u \in Threads :
                          /\ th'[u].op = "gc"
                          /\ \E i \in DOMAIN th'[u].gc :
                                th'[u].gc[i].addr = THMAP_GETOFF(a)
        /\ (th[t].op = "gc" /\ th[t].pc = "gc_free" /\ th'[t].pc # "gc_free") =>
              th[t].gc = <<>>
        /\ \A a \in Addr :
              (th'[t] # th[t] /\ mem[a].kind # "free" /\ mem'[a].kind = "free") =>
                  /\ th[t].op = "gc" /\ th[t].pc = "gc_free" /\ th[t].gc # <<>>
                  /\ Head(th[t].gc) = [addr |-> THMAP_GETOFF(a), len |-> mem[a].size]
                  /\ th'[t].gc = Tail(th[t].gc)

\* C17: under any interleaving of stage_mem_gc and thmap_gc every staged
\* record is freed exactly once, by the first drain whose swap follows its
\* push; none is lost, freed twice or left on the list after being freed.
C17_RetirementQueue == []QueueInv /\ [][DrainRule]_vars

\* A drain has freed one of the records it took and has another to free,
\* while a record pushed after its swap waits on the list for the next drain.
C17_Witness ==
    \E t, u \in Threads :
        /\ th[t].op = "gc" /\ th[t].pc = "gc_free"
        /\ th[t].ret >= 1 /\ th[t].gc # <<>>
        /\ gc_list # <<>>
        /\ th[u].op = "stage" /\ th[u].pc = "done"

(***************************************************************************)
(* The occupancy count, checked under Spec.                                *)
(***************************************************************************)
Occupied(c) == {i \in DOMAIN c.slots : c.slots[i] # 0}

\* An unlocked inner node's count is the number of its non-zero slots.
CountInv ==
    \A a \in Addr :
        (mem[a].kind = "inode" /\ ~node_locked_p(mem[a].state)) =>
            NODE_COUNT(mem[a].state) = Cardinality(Occupied(mem[a]))

\* A linked inner node other than the root that is unlocked and not DELETED
\* is not empty.
LinkedNonEmpty ==
    \A a \in Linked(mem) \ {THMAP_GETPTR(root)} :
        (/\ mem[a].kind = "inode"
         /\ ~node_locked_p(mem[a].state)
         /\ ~node_deleted_p(mem[a].state)) =>
            NODE_COUNT(mem[a].state) >= 1

\* C18: an unlocked inner node's count equals the number of its non-zero
\* slots, and a linked, unlocked, non-DELETED node other than the root has
\* a count of at least 1.
C18_OccupancyCount == CountInv /\ LinkedNonEmpty

\* A remove has taken one of two leaves out of a linked inner node, which is
\* unlocked again with count 1, while the root holds that node alone.
C18_Witness ==
    \E a \in Linked(mem) \ {THMAP_GETPTR(root)} :
        /\ mem[a].kind = "inode"
        /\ ~node_locked_p(mem[a].state) /\ ~node_deleted_p(mem[a].state)
        /\ NODE_COUNT(mem[a].state) = 1
        /\ Cardinality(Occupied(mem[a])) = 1
        /\ \E i \in DOMAIN gc_list : gc_list[i].len = THMAP_LEAF_LEN
        /\ NODE_COUNT(mem[THMAP_GETPTR(root)].state) = 1

\* C19: no inner node that is DELETED with count zero is referred to by a
\* slot of its parent, where a descent from the root reaches it.
C19_DeletedEmptyUnlinked ==
    \A a \in Linked(mem) :
        (mem[a].kind = "inode" /\ a # THMAP_GETPTR(root)) =>
            ~(/\ node_deleted_p(mem[a].state)
              /\ NODE_COUNT(mem[a].state) = 0
              /\ THMAP_NODE(mem[a].parent) \in Referrers(mem, a))

(***************************************************************************)
(* The hash bits of the levels, checked under SpecHash.                    *)
(***************************************************************************)
\* Word w with bit b inverted.
FlipBit(w, b) ==
    IF b >= 16
    THEN IF (w.hi \div (2 ^ (b - 16))) % 2 = 1
         THEN Word(w.hi - 2 ^ (b - 16), w.lo) ELSE Word(w.hi + 2 ^ (b - 16), w.lo)
    ELSE IF (w.lo \div (2 ^ b)) % 2 = 1
         THEN Word(w.hi, w.lo - 2 ^ b) ELSE Word(w.hi, w.lo + 2 ^ b)

\* The slot hashval_getslot returns at level l for a key whose hash word of
\* that level's index is w.
SlotAt(l, w, key) ==
    hashval_getslot([hashval_query(THMAP_QUERY_INIT(l), key) EXCEPT !.hashval = w],
                    key)

\* Level l extracts bit b of its hash word: the slot depends on it.
ReadsBit(l, w, b, key) == SlotAt(l, w, key) # SlotAt(l, FlipBit(w, b), key)

\* The index of the hash word level l uses, as hashval_getslot leaves it in
\* the query.
WordOf(l, key) == hashval_query(THMAP_QUERY_INIT(l), key).hashidx

\* C20: hashval_getslot returns a slot below the fanout of the level, from
\* hash word floor((6 + 4 * level) / 32), and no bit of that word is
\* extracted by another level too.
C20_HashBitsNotReused ==
    \A t \in Threads :
        (th[t].op = "hash" /\ th[t].pc = "done") =>
            LET q == th[t].query
                l == q.level
            IN  /\ th[t].slot >= 0
                /\ th[t].slot < (IF l = 0 THEN 64 ELSE 16)
                /\ q.hashidx = (6 + 4 * l) \div 32
                /\ \A l2 \in (0..MaxLevel) \ {l} :
                      WordOf(l2, th[t].key) = q.hashidx =>
                          \A b \in 0..(HASHVAL_BITS - 1) :
                              ~(/\ ReadsBit(l, q.hashval, b, th[t].key)
                                /\ ReadsBit(l2, q.hashval, b, th[t].key))

\* The first two parts of C20, which hold: the slot is below the fanout and
\* comes from hash word floor((6 + 4 * level) / 32), of which the level
\* extracts exactly ROOT_BITS or LEVEL_BITS bits.
HashSlotInRange ==
    \A t \in Threads :
        (th[t].op = "hash" /\ th[t].pc = "done") =>
            LET q == th[t].query
                l == q.level
            IN  /\ th[t].slot \in 0..((IF l = 0 THEN ROOT_SIZE ELSE LEVEL_SIZE) - 1)
                /\ q.hashidx = (6 + 4 * l) \div 32
                /\ Cardinality({b \in 0..(HASHVAL_BITS - 1) :
                                   ReadsBit(l, q.hashval, b, th[t].key)})
                       = (IF l = 0 THEN ROOT_BITS ELSE LEVEL_BITS)

\* The levels whose bits some other level extracts too.
ReusingLevels ==
    {l \in 0..MaxLevel :
        \E l2 \in (0..MaxLevel) \ {l}, b \in 0..(HASHVAL_BITS - 1) :
            /\ WordOf(l2, 1) = WordOf(l, 1)
            /\ ReadsBit(l, WordZero, b, 1) /\ ReadsBit(l2, WordZero, b, 1)}

\* The root and level 6 are the levels that share bits: both read bits 0-3
\* of hash word 0.
RootAndLevelSixShareBits == ReusingLevels = {0, 6}

====
